---- MODULE Spec2Model ----
(***************************************************************************)
(* A model of the chunked bump allocators of linked-list-arena:            *)
(*   - Arena              (src/src/lib.rs):    singly linked chunk chain    *)
(*   - DoublyLinkedArena  (src/src/double.rs): LinkedList of blocks         *)
(*                                                                         *)
(* Memory is modelled by position: a pointer is a pair (chunk, idx) where  *)
(* chunk is the identity of a heap block (its creation rank) and idx the   *)
(* offset, in elements, from the first slot of that block.  Blocks never   *)
(* move, so a position is an address.  idx < N is a slot of the block;     *)
(* idx = N is the address one past its slot array, where a write is out of *)
(* bounds.                                                                 *)
(***************************************************************************)
EXTENDS Integers, Sequences, FiniteSets, TLC

\* ---------------------------------------------------------------- bounds
\* Largest chunk capacity N explored (the const generic parameter).
MaxN == 3
\* Largest number of alloc calls made on one arena.
MaxAllocs == 7
\* Largest number of chunks one arena creates.
MaxChunks == 3

\* Width of usize, scaled down from 2^64 so that the wrap of `as usize`
\* stays inside the model checker's integers.
UsizeModulus == 65536

\* The values of the element type that are allocated and written.
Values == {"v1", "v2"}
\* size_of::<T>() of the element type: zero-sized or not.
ElemSizes == {0, 4}
\* rustc chooses the field order of Chunk (repr(Rust)): the slot array
\* either starts the block, or follows the `next` link and ends the block.
Layouts == {"slots_first", "next_first"}

\* Option<_>: None is the empty sequence, Some(x) the sequence of x.
None == <<>>
Some(x) == <<x>>
Unwrap(o) == o[1]

\* The contents of a storage cell: uninitialized, an element, or the
\* remains of an element another write ran over.
Uninit == "uninit"
Garbage == "garbage"

\* Chunk.next: no successor, a successor chunk, or bytes that are no
\* pointer to a chunk (the link was overwritten by element bytes).
NoLink == [tag |-> "none", to |-> 0, bits |-> "none"]
ChunkLink(c) == [tag |-> "chunk", to |-> c, bits |-> "none"]
WildLink(v) == [tag |-> "wild", to |-> 0, bits |-> v]

VARIABLES
    N,          \* const generic N of the arena type
    elemSize,   \* size_of::<T>()
    layout,     \* field order of Chunk chosen by the build
    status,     \* Arena: "unborn", "alive", "panicked", "borrow_panic",
                \*        "destroyed", "crashed", "dropped", "drop_crashed"
    borrow,     \* borrow flag of the RefCell `inner`: 0 free, -1 mutable, n > 0 shared
    inner,      \* Arena.inner: None or InnerArena [head_chunk, ptr, end]
    chunks,     \* the heap: chunk id -> [slots, next, past]
    refs,       \* the references alloc returned, in call order
    shadow,     \* for each reference, the value last written through it
    dropped,    \* destructor calls made by destroy: <<position, cell>>
    freed,      \* chunks released by the teardown, in order
    teardown,   \* the teardown's destructor calls and chunk releases, in order
    ub,         \* an out-of-bounds access has happened
    d_status,   \* DoublyLinkedArena: "unborn", "alive", "panicked", "borrow_panic"
    list,       \* DoublyLinkedArena.list: the blocks, front to back
    d_ptr,      \* DoublyLinkedArena.ptr: None or Some(pointer)
    d_end,      \* DoublyLinkedArena.end: None or Some(pointer)
    d_borrow,   \* borrow flag of the RefCell around list: 0 free, -1 mutable
    d_depth,    \* nested alloc calls the last alloc made on itself
    d_refs,     \* the references alloc returned, in call order
    d_shadow,   \* for each reference, the value last written through it
    o_status,   \* old.rs Arena: "unborn", "alive", "dropped"
    o_head,     \* old.rs Arena.head: None or Some(chunk)
    o_tail,     \* old.rs Arena.tail: None or Some(chunk)
    o_index,    \* old.rs Arena.current_index
    o_chunks,   \* old.rs heap: chunk id -> [slots, next]
    o_refs,     \* the references push returned, in call order
    o_result,   \* what the last free_slots_in_current_chunk call gave
    o_unwound,  \* the last call on the old.rs Arena ended in a panic
    o_freed     \* chunks released by the Drop impl of old.rs, in order

avars == <<status, borrow, inner, chunks, refs, shadow, dropped, freed, teardown, ub>>
dvars == <<d_status, list, d_ptr, d_end, d_borrow, d_depth, d_refs, d_shadow>>
ovars == <<o_status, o_head, o_tail, o_index, o_chunks, o_refs, o_result, o_unwound, o_freed>>
cfgvars == <<N, elemSize, layout>>

\* ------------------------------------------------------------- pointers
Ptr(c, i) == [chunk |-> c, idx |-> i]

\* NonNull::add
PtrAdd(p, n) == Ptr(p.chunk, p.idx + n)

\* NonNull's PartialOrd (address order); both operands lie in one block.
PtrLt(p, q) == p.chunk = q.chunk /\ p.idx < q.idx

\* NonNull::offset_from(...) as usize
OffsetFromAsUsize(e, p) == ((e.idx - p.idx) + UsizeModulus) % UsizeModulus

\* --------------------------------------------------------------- memory
\* Chunk { slots: [uninit; N], next: old_head }.  `past` is what the bytes
\* at slots.as_ptr().add(N) hold after an out-of-bounds element write.
NewChunk(link) == [slots |-> [i \in 1..N |-> Uninit], next |-> link, past |-> Uninit]

InBounds(p) == p.idx >= 0 /\ p.idx < N

\* Reading through a reference.
Deref(mem, p) ==
    IF InBounds(p) THEN mem[p.chunk].slots[p.idx + 1] ELSE mem[p.chunk].past

\* The blocks an out-of-bounds element write at block c can run over: the
\* neighbours of c on the heap that hold element bytes of their own.
Neighbours(mem, c) == {d \in DOMAIN mem : d # c /\ mem[d].past # Uninit}

\* MaybeUninit::write / `*el = v` at position p.  Inside the slot array the
\* write changes that slot only.  Outside (possible only at idx = N) the
\* behaviour is undefined.  The element bytes land at p all the same; with
\* the slot array first they lie over the block's own `next` link, and,
\* when the element is larger than the room the allocator left, over a
\* neighbouring block as well.
WriteOutcomes(mem, p, v) ==
    IF InBounds(p)
    THEN {[mem EXCEPT ![p.chunk].slots[p.idx + 1] = v]}
    ELSE LET own == IF layout = "slots_first"
                    THEN [mem EXCEPT ![p.chunk].past = v, ![p.chunk].next = WildLink(v)]
                    ELSE [mem EXCEPT ![p.chunk].past = v]
         IN  {own} \cup {[own EXCEPT ![d].past = Garbage, ![d].next = WildLink(v)] :
                           d \in Neighbours(mem, p.chunk)}

\* -------------------------------------------------------------- RefCell
\* One step of a RefCell's borrow flag: borrow_mut() needs the cell free,
\* borrow() needs it not mutably borrowed, dropping a guard gives it back.
BorrowStep(st, ev) ==
    IF st.panicked THEN st
    ELSE IF ev = "borrow_mut"
    THEN IF st.flag = 0 THEN [st EXCEPT !.flag = -1] ELSE [st EXCEPT !.panicked = TRUE]
    ELSE IF ev = "borrow"
    THEN IF st.flag >= 0 THEN [st EXCEPT !.flag = st.flag + 1] ELSE [st EXCEPT !.panicked = TRUE]
    ELSE IF ev = "drop_mut" THEN [st EXCEPT !.flag = 0]
    ELSE [st EXCEPT !.flag = st.flag - 1]

\* The borrows and guard drops of one call, in program order, from flag on.
RECURSIVE RunBorrows(_, _)
RunBorrows(st, trace) ==
    IF trace = <<>> THEN st ELSE RunBorrows(BorrowStep(st, Head(trace)), Tail(trace))

BorrowsFrom(flag, trace) == RunBorrows([flag |-> flag, panicked |-> FALSE], trace)

\* ------------------------------------------------------- Arena (lib.rs)
\* Arena::new
Arena_new ==
    /\ status = "unborn"
    /\ status' = IF elemSize # 0 THEN "alive" ELSE "panicked"
    /\ inner' = None
    /\ UNCHANGED <<borrow, chunks, refs, shadow, dropped, freed, teardown, ub>>

\* The fast-path test one slot too early (`ptr.add(1) < arena.end`).
HasSpace_OffByOne(arena) ==
    arena # None /\ PtrLt(PtrAdd(Unwrap(arena).ptr, 1), Unwrap(arena).end)

\* `if let Some(arena) = ... { if ptr < arena.end {`
HasSpace(arena) == arena # None /\ PtrLt(Unwrap(arena).ptr, Unwrap(arena).end)

\* FreshInner with the cursor left on the first slot (`ptr` for `ptr.add(1)`).
FreshInner_CursorOnFirstSlot(c) ==
    Some([head_chunk |-> c, ptr |-> Ptr(c, 0), end |-> PtrAdd(Ptr(c, 0), N)])

\* The InnerArena installed for a fresh head chunk c.
FreshInner(c) ==
    Some([head_chunk |-> c, ptr |-> PtrAdd(Ptr(c, 0), 1), end |-> PtrAdd(Ptr(c, 0), N)])

\* Advance with `ptr.add(2)`: the cursor steps over a slot.
Advance_SkipsSlot(arena) == Some([Unwrap(arena) EXCEPT !.ptr = PtrAdd(Unwrap(arena).ptr, 2)])

\* Advance without the `ptr.add(1)`: the cursor stays where it was.
Advance_CursorStuck(arena) == arena

\* The InnerArena after the fast path took the slot at arena.ptr.
Advance(arena) == Some([Unwrap(arena) EXCEPT !.ptr = PtrAdd(Unwrap(arena).ptr, 1)])

\* Arena::alloc, fast path: the guard of `self.inner.borrow_mut()` lives
\* until the function returns.
AllocFastBorrows == <<"borrow_mut", "drop_mut">>

\* The slow path with the guard of line 48 still held at `self.inner.take()`.
AllocSlowBorrows_GuardHeld ==
    <<"borrow_mut", "borrow_mut", "drop_mut", "drop_mut", "borrow_mut", "drop_mut">>

\* Arena::alloc, slow path: the guard of `self.inner.borrow_mut()` is
\* dropped at the end of the `if let`; then `self.inner.take()` and
\* `self.inner.replace(..)` each borrow mutably for the call.
AllocSlowBorrows ==
    <<"borrow_mut", "drop_mut", "borrow_mut", "drop_mut", "borrow_mut", "drop_mut">>

\* Arena::alloc
Arena_alloc(elem) ==
    /\ status = "alive"
    /\ Len(refs) < MaxAllocs
    /\ LET b == BorrowsFrom(borrow, IF HasSpace(inner) THEN AllocFastBorrows
                                                       ELSE AllocSlowBorrows)
       IN  /\ borrow' = b.flag
           /\ IF b.panicked
              THEN /\ status' = "borrow_panic"
                   /\ UNCHANGED <<inner, chunks, refs, shadow, ub>>
              ELSE /\ status' = status
                   /\ shadow' = Append(shadow, elem)
                   /\ IF HasSpace(inner)
                      THEN /\ inner' = Advance(inner)
                           /\ chunks' \in WriteOutcomes(chunks, Unwrap(inner).ptr, elem)
                           /\ refs' = Append(refs, Unwrap(inner).ptr)
                           /\ ub' = (ub \/ ~InBounds(Unwrap(inner).ptr))
                      ELSE LET old_head == IF inner = None THEN NoLink
                                           ELSE ChunkLink(Unwrap(inner).head_chunk)
                               c == Len(chunks) + 1
                               grown == Append(chunks, NewChunk(old_head))
                           IN  /\ Len(chunks) < MaxChunks
                               /\ inner' = FreshInner(c)
                               /\ chunks' \in WriteOutcomes(grown, Ptr(c, 0), elem)
                               /\ refs' = Append(refs, Ptr(c, 0))
                               /\ ub' = (ub \/ ~InBounds(Ptr(c, 0)))
    /\ UNCHANGED <<dropped, freed, teardown>>

\* `*el = v` through the i-th reference alloc returned.
Arena_write(i, v) ==
    /\ status = "alive"
    /\ i \in DOMAIN refs
    /\ chunks' \in WriteOutcomes(chunks, refs[i], v)
    /\ shadow' = [shadow EXCEPT ![i] = v]
    /\ ub' = (ub \/ ~InBounds(refs[i]))
    /\ UNCHANGED <<status, borrow, inner, refs, dropped, freed, teardown>>

\* is_empty testing is_some() for is_none().
is_empty_Inverted(arena) == arena # None

\* Arena::is_empty
is_empty(arena) == arena = None

\* Arena::free_slots_in_current_chunk
free_slots_in_current_chunk(arena) ==
    IF arena = None THEN None
    ELSE Some(OffsetFromAsUsize(Unwrap(arena).end, Unwrap(arena).ptr))

\* `self.inner.borrow()` of is_empty and of free_slots_in_current_chunk:
\* a shared guard that lives for the expression.
QueryBorrows == <<"borrow", "drop">>

\* A call of Arena::is_empty or Arena::free_slots_in_current_chunk: it
\* borrows the cell and changes none of the fields.
Arena_query ==
    /\ status = "alive"
    /\ LET b == BorrowsFrom(borrow, QueryBorrows)
       IN  /\ borrow' = b.flag
           /\ status' = IF b.panicked THEN "borrow_panic" ELSE status
    /\ UNCHANGED <<inner, chunks, refs, shadow, dropped, freed, teardown, ub>>

\* `while ptr < arena.ptr { assume_init_drop(); ptr = ptr.add(1) }`:
\* the positions of the head chunk the first loop of destroy visits.
RECURSIVE HeadDrops(_, _)
HeadDrops(p, limit) ==
    IF PtrLt(p, limit) THEN <<p>> \o HeadDrops(PtrAdd(p, 1), limit) ELSE <<>>

\* `chunk.slots.iter_mut().for_each(|slot| slot.assume_init_drop())`
SlotDrops(c) == [i \in 1..N |-> Ptr(c, i - 1)]

\* A destructor call: where it ran and what the cell held.
DropAt(mem, p) == [at |-> p, cell |-> Deref(mem, p)]

\* The entries of the teardown log: a destructor call at a position, and
\* the release of a chunk's memory.
DropEvent(mem, p) == [kind |-> "drop", chunk |-> p.chunk, idx |-> p.idx, cell |-> Deref(mem, p)]
FreeEvent(c) == [kind |-> "free", chunk |-> c, idx |-> 0, cell |-> "none"]
DropEvents(mem, ps) == [k \in DOMAIN ps |-> DropEvent(mem, ps[k])]

\* `while let Some(boxed_node) = cur_link { ... cur_link = chunk.next.take() }`
\* from link on: the positions dropped, the chunks released (each at the
\* end of its iteration), and whether the walk followed a link that is no
\* pointer to a chunk.
RECURSIVE Walk(_, _)
Walk(mem, link) ==
    IF link.tag = "none"
    THEN [drops |-> <<>>, freed |-> <<>>, events |-> <<>>, crashed |-> FALSE]
    ELSE IF link.tag = "wild"
    THEN [drops |-> <<>>, freed |-> <<>>, events |-> <<>>, crashed |-> TRUE]
    ELSE LET rest == Walk(mem, mem[link.to].next)
         IN  [drops |-> SlotDrops(link.to) \o rest.drops,
              freed |-> <<link.to>> \o rest.freed,
              events |-> DropEvents(mem, SlotDrops(link.to)) \o <<FreeEvent(link.to)>>
                            \o rest.events,
              crashed |-> rest.crashed]

\* Arena::destroy
Arena_destroy ==
    /\ status = "alive"
    /\ IF inner = None
       THEN /\ status' = "destroyed"
            /\ UNCHANGED <<dropped, freed, teardown, ub>>
       ELSE LET arena == Unwrap(inner)
                head == arena.head_chunk
                first == HeadDrops(Ptr(head, 0), arena.ptr)
                walk == Walk(chunks, chunks[head].next)
                all == first \o walk.drops
            IN  /\ dropped' = [k \in DOMAIN all |-> DropAt(chunks, all[k])]
                /\ freed' = IF walk.crashed THEN walk.freed ELSE Append(walk.freed, head)
                /\ teardown' = DropEvents(chunks, first) \o walk.events
                                  \o (IF walk.crashed THEN <<>> ELSE <<FreeEvent(head)>>)
                /\ status' = IF walk.crashed THEN "crashed" ELSE "destroyed"
                /\ ub' = (ub \/ \E k \in DOMAIN all : ~InBounds(all[k]))
    /\ UNCHANGED <<borrow, inner, chunks, refs, shadow>>

\* The drop glue of Link = Pin<Box<Chunk>> from link on: Chunk has no Drop
\* impl and its slots are MaybeUninit, so dropping a chunk drops its `next`
\* (the older chunks, recursively) and then releases the box; no element
\* destructor runs.  A link that is no pointer to a chunk ends the process.
RECURSIVE DropGlue(_, _)
DropGlue(mem, link) ==
    IF link.tag = "none" THEN [freed |-> <<>>, crashed |-> FALSE]
    ELSE IF link.tag = "wild" THEN [freed |-> <<>>, crashed |-> TRUE]
    ELSE LET rest == DropGlue(mem, mem[link.to].next)
         IN  [freed |-> IF rest.crashed THEN <<>> ELSE Append(rest.freed, link.to),
              crashed |-> rest.crashed]

\* The Arena goes out of scope without a call of destroy.
Arena_drop ==
    /\ status = "alive"
    /\ LET glue == IF inner = None THEN DropGlue(chunks, NoLink)
                   ELSE DropGlue(chunks, ChunkLink(Unwrap(inner).head_chunk))
       IN  /\ freed' = glue.freed
           /\ teardown' = [k \in DOMAIN glue.freed |-> FreeEvent(glue.freed[k])]
           /\ status' = IF glue.crashed THEN "drop_crashed" ELSE "dropped"
    /\ dropped' = <<>>
    /\ UNCHANGED <<borrow, inner, chunks, refs, shadow, ub>>

\* --------------------------------------- DoublyLinkedArena (double.rs)
\* DoublyLinkedArena::new
Dbl_new ==
    /\ d_status = "unborn"
    /\ d_status' = IF elemSize # 0 /\ N # 0 THEN "alive" ELSE "panicked"
    /\ list' = <<>>
    /\ d_ptr' = None
    /\ d_end' = None
    /\ UNCHANGED <<d_borrow, d_depth, d_refs, d_shadow>>

\* `[const { MaybeUninit::uninit() }; N]`
NewBlock == [i \in 1..N |-> Uninit]

\* slot.write(elem) into a block of the list.
BlockWrite(lst, p, v) ==
    IF InBounds(p) THEN [lst EXCEPT ![p.chunk][p.idx + 1] = v] ELSE lst

\* The fast-path test with `<=` in place of `<`.
Dbl_HasSpace_Inclusive(st) ==
    /\ st.ptr # None
    /\ st.end # None
    /\ (PtrLt(Unwrap(st.ptr), Unwrap(st.end)) \/ Unwrap(st.ptr) = Unwrap(st.end))

\* `if let Some(mut ptr) = self.ptr.get() { let end = self.end.get().unwrap();`
\* `if ptr < end {`
Dbl_HasSpace(st) ==
    st.ptr # None /\ st.end # None /\ PtrLt(Unwrap(st.ptr), Unwrap(st.end))

\* push_back with the cursor set one past the first slot of the new block,
\* as Arena::alloc of lib.rs sets it.
Dbl_push_back_CursorPastFirst(st) ==
    LET c == Len(st.list) + 1
    IN  [st EXCEPT !.borrow = -1,
                   !.list = Append(st.list, NewBlock),
                   !.ptr = Some(PtrAdd(Ptr(c, 0), 1)),
                   !.end = Some(PtrAdd(Ptr(c, 0), N)),
                   !.depth = st.depth + 1]

\* push_front in place of push_back: the new block goes to the head of the
\* list and the cursor into it.
Dbl_push_back_AtFront(st) ==
    [st EXCEPT !.borrow = -1,
               !.list = <<NewBlock>> \o st.list,
               !.ptr = Some(Ptr(1, 0)),
               !.end = Some(PtrAdd(Ptr(1, 0), N)),
               !.depth = st.depth + 1]

\* push_back without `self.end.set(...)`.
Dbl_push_back_EndUnset(st) ==
    LET c == Len(st.list) + 1
    IN  [st EXCEPT !.borrow = -1,
                   !.list = Append(st.list, NewBlock),
                   !.ptr = Some(Ptr(c, 0)),
                   !.depth = st.depth + 1]

\* `let mut list = self.list.borrow_mut(); list.push_back(...);`
\* `self.ptr.set(Some(ptr)); self.end.set(ptr.add(N).into());`
Dbl_push_back(st) ==
    LET c == Len(st.list) + 1
    IN  [st EXCEPT !.borrow = -1,
                   !.list = Append(st.list, NewBlock),
                   !.ptr = Some(Ptr(c, 0)),
                   !.end = Some(PtrAdd(Ptr(c, 0), N)),
                   !.depth = st.depth + 1]

\* One run of DoublyLinkedArena::alloc on the fields st, the calls it makes
\* on itself included.  st.borrow is the borrow flag of the list's RefCell,
\* st.depth the number of nested calls so far.
RECURSIVE Dbl_run(_, _)
Dbl_run(st, elem) ==
    IF st.ptr # None /\ st.end = None
    THEN [st EXCEPT !.panicked = TRUE]
    ELSE IF Dbl_HasSpace(st)
    THEN [st EXCEPT !.ptr = Some(PtrAdd(Unwrap(st.ptr), 1)),
                    !.list = BlockWrite(st.list, Unwrap(st.ptr), elem),
                    !.oob = ~InBounds(Unwrap(st.ptr)),
                    !.ret = st.ptr]
    ELSE IF st.borrow # 0
    THEN [st EXCEPT !.panicked = TRUE, !.borrow_err = TRUE]
    ELSE LET inner_call == Dbl_run(Dbl_push_back(st), elem)
         IN  [inner_call EXCEPT !.borrow = 0]

\* DoublyLinkedArena::alloc
Dbl_alloc(elem) ==
    /\ d_status = "alive"
    /\ Len(d_refs) < MaxAllocs
    /\ LET st == [list |-> list, ptr |-> d_ptr, end |-> d_end, borrow |-> d_borrow,
                  panicked |-> FALSE, borrow_err |-> FALSE, oob |-> FALSE,
                  ret |-> None, depth |-> 0]
           r == Dbl_run(st, elem)
       IN  /\ Dbl_HasSpace(st) \/ Len(list) < MaxChunks
           /\ list' = r.list
           /\ d_ptr' = r.ptr
           /\ d_end' = r.end
           /\ d_borrow' = r.borrow
           /\ d_depth' = r.depth
           /\ d_status' = IF r.borrow_err THEN "borrow_panic"
                          ELSE IF r.panicked \/ r.oob THEN "panicked" ELSE "alive"
           /\ d_refs' = IF r.ret = None THEN d_refs ELSE Append(d_refs, Unwrap(r.ret))
           /\ d_shadow' = IF r.ret = None THEN d_shadow ELSE Append(d_shadow, elem)

\* `*el = v` through the i-th reference alloc returned.
Dbl_write(i, v) ==
    /\ d_status = "alive"
    /\ i \in DOMAIN d_refs
    /\ list' = BlockWrite(list, d_refs[i], v)
    /\ d_shadow' = [d_shadow EXCEPT ![i] = v]
    /\ UNCHANGED <<d_status, d_ptr, d_end, d_borrow, d_depth, d_refs>>

\* Reading through a reference into the list.
Dbl_Deref(lst, p) == lst[p.chunk][p.idx + 1]

\* DoublyLinkedArena::is_empty
Dbl_is_empty(lst) == Len(lst) = 0

\* The result of a call that panicked instead of returning.
Panic == <<"panic", "panic">>

\* DoublyLinkedArena::free_slots_in_current_chunk
Dbl_free_slots_in_current_chunk(ptr, end) ==
    IF end = None THEN None
    ELSE IF ptr = None THEN Panic
    ELSE Some(OffsetFromAsUsize(Unwrap(end), Unwrap(ptr)))

\* A call of DoublyLinkedArena::is_empty: `self.list.borrow()`.
Dbl_is_empty_call ==
    /\ d_status = "alive"
    /\ LET b == BorrowsFrom(d_borrow, QueryBorrows)
       IN  /\ d_borrow' = b.flag
           /\ d_status' = IF b.panicked THEN "borrow_panic" ELSE d_status
    /\ UNCHANGED <<list, d_ptr, d_end, d_depth, d_refs, d_shadow>>

\* A call of DoublyLinkedArena::free_slots_in_current_chunk: it reads the
\* two Cells and panics when end is Some and ptr is None.
Dbl_free_slots_call ==
    /\ d_status = "alive"
    /\ d_status' = IF Dbl_free_slots_in_current_chunk(d_ptr, d_end) = Panic
                   THEN "panicked" ELSE d_status
    /\ UNCHANGED <<list, d_ptr, d_end, d_borrow, d_depth, d_refs, d_shadow>>

\* ------------------------------------------------ old Arena (old.rs)
\* Arena::new of old.rs: no assertion on N or on the element size.
Old_new ==
    /\ o_status = "unborn"
    /\ o_status' = "alive"
    /\ o_head' = None
    /\ o_tail' = None
    /\ o_index' = 0
    /\ UNCHANGED <<o_chunks, o_refs, o_result, o_unwound, o_freed>>

\* `Box::new(Chunk { slots: [uninit; N], next: None })`
Old_NewChunk == [slots |-> [i \in 1..N |-> Uninit], next |-> None]

\* `(*tail.as_ptr()).slots.get_mut(current_index)` is Some
Old_HasSlot(tail, index) == tail # None /\ index < N

\* The new-chunk branch of push up to `self.current_index.set(1)`: the
\* chunk is linked behind the tail (or becomes the head) and the fields
\* are set before slot 0 is indexed.
Old_Link(mem, head, tail) ==
    LET c == Len(mem) + 1
        grown == Append(mem, Old_NewChunk)
    IN  [chunks |-> IF tail = None THEN grown
                    ELSE [grown EXCEPT ![Unwrap(tail)].next = Some(c)],
         head |-> IF tail = None THEN Some(c) ELSE head,
         tail |-> Some(c),
         index |-> 1]

\* Arena::push of old.rs.  `slots[0]` on a chunk of zero slots panics after
\* head, tail and current_index were set; the arena survives the unwinding.
Old_push(elem) ==
    /\ o_status = "alive"
    /\ Len(o_refs) < MaxAllocs
    /\ IF Old_HasSlot(o_tail, o_index)
       THEN /\ o_index' = o_index + 1
            /\ o_chunks' = [o_chunks EXCEPT ![Unwrap(o_tail)].slots[o_index + 1] = elem]
            /\ o_refs' = Append(o_refs, Ptr(Unwrap(o_tail), o_index))
            /\ o_unwound' = FALSE
            /\ UNCHANGED <<o_head, o_tail>>
       ELSE /\ Len(o_chunks) < MaxChunks
            /\ LET linked == Old_Link(o_chunks, o_head, o_tail)
                   c == Unwrap(linked.tail)
               IN  /\ o_head' = linked.head
                   /\ o_tail' = linked.tail
                   /\ o_index' = linked.index
                   /\ IF 0 < N
                      THEN /\ o_chunks' = [linked.chunks EXCEPT ![c].slots[1] = elem]
                           /\ o_refs' = Append(o_refs, Ptr(c, 0))
                           /\ o_unwound' = FALSE
                      ELSE /\ o_chunks' = linked.chunks
                           /\ o_refs' = o_refs
                           /\ o_unwound' = TRUE
    /\ UNCHANGED <<o_status, o_result, o_freed>>

\* Arena::is_empty of old.rs
Old_is_empty(head) == head = None

\* Arena::free_slots_in_current_chunk of old.rs, `N - current_index` on
\* usize: the results the build can give.  An underflow panics where
\* overflow checks are on and wraps where they are off.
Old_free_slots_in_current_chunk(index) ==
    IF index <= N THEN {Some(N - index)}
    ELSE {Panic, Some((N - index + UsizeModulus) % UsizeModulus)}

\* A call of is_empty on the old.rs Arena.
Old_is_empty_call ==
    /\ o_status = "alive"
    /\ o_unwound' = FALSE
    /\ UNCHANGED <<o_status, o_head, o_tail, o_index, o_chunks, o_refs, o_result, o_freed>>

\* A call of free_slots_in_current_chunk on the old.rs Arena.
Old_free_slots_call ==
    /\ o_status = "alive"
    /\ o_result' \in Old_free_slots_in_current_chunk(o_index)
    /\ o_unwound' = (o_result' = Panic)
    /\ UNCHANGED <<o_status, o_head, o_tail, o_index, o_chunks, o_refs, o_freed>>

\* `while let Some(chunk) = head { Box::from_raw(chunk); head = chunk.next }`
RECURSIVE Old_Release(_, _)
Old_Release(mem, link) ==
    IF link = None THEN <<>>
    ELSE <<Unwrap(link)>> \o Old_Release(mem, mem[Unwrap(link)].next)

\* Drop for the old.rs Arena
Old_drop ==
    /\ o_status = "alive"
    /\ o_status' = "dropped"
    /\ o_freed' = Old_Release(o_chunks, o_head)
    /\ UNCHANGED <<o_head, o_tail, o_index, o_chunks, o_refs, o_result, o_unwound>>

\* ------------------------------------------------------- specifications
Init ==
    /\ N \in 0..MaxN
    /\ elemSize \in ElemSizes
    /\ layout \in Layouts
    /\ status = "unborn"
    /\ borrow = 0
    /\ inner = None
    /\ chunks = <<>>
    /\ refs = <<>>
    /\ shadow = <<>>
    /\ dropped = <<>>
    /\ freed = <<>>
    /\ teardown = <<>>
    /\ ub = FALSE
    /\ d_status = "unborn"
    /\ list = <<>>
    /\ d_ptr = None
    /\ d_end = None
    /\ d_borrow = 0
    /\ d_depth = 0
    /\ d_refs = <<>>
    /\ d_shadow = <<>>
    /\ o_status = "unborn"
    /\ o_head = None
    /\ o_tail = None
    /\ o_index = 0
    /\ o_chunks = <<>>
    /\ o_refs = <<>>
    /\ o_result = None
    /\ o_unwound = FALSE
    /\ o_freed = <<>>

vars == <<N, elemSize, layout, status, borrow, inner, chunks, refs, shadow, dropped, freed,
          teardown, ub, d_status, list, d_ptr, d_end, d_borrow, d_depth, d_refs, d_shadow,
          o_status, o_head, o_tail, o_index, o_chunks, o_refs, o_result, o_unwound, o_freed>>

\* The singly linked Arena of lib.rs on its own.
New == Arena_new /\ UNCHANGED <<cfgvars, dvars, ovars>>
Alloc == \E elem \in Values : Arena_alloc(elem) /\ UNCHANGED <<cfgvars, dvars, ovars>>
Write == \E i \in 1..MaxAllocs, v \in Values : Arena_write(i, v) /\ UNCHANGED <<cfgvars, dvars, ovars>>
Destroy == Arena_destroy /\ UNCHANGED <<cfgvars, dvars, ovars>>
Drop == Arena_drop /\ UNCHANGED <<cfgvars, dvars, ovars>>
IsEmpty == Arena_query /\ UNCHANGED <<cfgvars, dvars, ovars>>
FreeSlots == Arena_query /\ UNCHANGED <<cfgvars, dvars, ovars>>

Next == New \/ Alloc \/ Write \/ Destroy \/ Drop \/ IsEmpty \/ FreeSlots

Spec == Init /\ [][Next]_vars

\* Both types, constructed with the same N and element type and driven by
\* the same calls: every alloc and every write goes to the Arena and, when
\* its construction did not panic, to the DoublyLinkedArena as well.
PairNew == Arena_new /\ Dbl_new /\ UNCHANGED <<cfgvars, ovars>>
PairAlloc ==
    \E elem \in Values :
        /\ Arena_alloc(elem)
        /\ IF d_status = "alive" THEN Dbl_alloc(elem) ELSE UNCHANGED dvars
        /\ UNCHANGED <<cfgvars, ovars>>
PairWrite ==
    \E i \in 1..MaxAllocs, v \in Values :
        /\ Arena_write(i, v)
        /\ IF d_status = "alive" THEN Dbl_write(i, v) ELSE UNCHANGED dvars
        /\ UNCHANGED <<cfgvars, ovars>>

PairIsEmpty ==
    /\ Arena_query
    /\ IF d_status = "alive" THEN Dbl_is_empty_call ELSE UNCHANGED dvars
    /\ UNCHANGED <<cfgvars, ovars>>
PairFreeSlots ==
    /\ Arena_query
    /\ IF d_status = "alive" THEN Dbl_free_slots_call ELSE UNCHANGED dvars
    /\ UNCHANGED <<cfgvars, ovars>>

NextPair == PairNew \/ PairAlloc \/ PairWrite \/ PairIsEmpty \/ PairFreeSlots

SpecPair == Init /\ [][NextPair]_vars

\* The old.rs Arena alone.
OldNew == Old_new /\ UNCHANGED <<cfgvars, avars, dvars>>
OldPush == \E elem \in Values : Old_push(elem) /\ UNCHANGED <<cfgvars, avars, dvars>>
OldIsEmpty == Old_is_empty_call /\ UNCHANGED <<cfgvars, avars, dvars>>
OldFreeSlots == Old_free_slots_call /\ UNCHANGED <<cfgvars, avars, dvars>>
OldDrop == Old_drop /\ UNCHANGED <<cfgvars, avars, dvars>>

NextOld == OldNew \/ OldPush \/ OldIsEmpty \/ OldFreeSlots \/ OldDrop

SpecOld == Init /\ [][NextOld]_vars

\* ----------------------------------------------------------- properties
\* The stored elements of the Arena, as the caller sees them.
K == Len(refs)

\* C1 (stability): while the Arena lives, every reference an earlier alloc
\* returned denotes a position of an existing chunk and reads back the value
\* last written through it, whatever allocs and chunk creations came after.
C1_Stability ==
    status = "alive" =>
        \A i \in DOMAIN refs :
            /\ refs[i].chunk \in DOMAIN chunks
            /\ Deref(chunks, refs[i]) = shadow[i]

\* C2 (destructor completeness): once destroy has run on an Arena holding K
\* elements, it has made exactly K destructor calls, one at the position of
\* each stored element and none elsewhere.
C2_DestructorCompleteness ==
    status \in {"destroyed", "crashed"} =>
        /\ Len(dropped) = K
        /\ \A i \in DOMAIN refs :
               Cardinality({k \in DOMAIN dropped : dropped[k].at = refs[i]}) = 1

\* C3 (no aliasing): no two alloc calls on one Arena return the same
\* (chunk, slot) position.
C3_NoAliasing ==
    \A i, j \in DOMAIN refs : i # j => refs[i] # refs[j]

C3_Witness ==
    /\ status = "alive"
    /\ K >= 4
    /\ \E i, j \in DOMAIN refs : i # j /\ refs[i].chunk = refs[j].chunk
    /\ \E i, j \in DOMAIN refs : refs[i].chunk # refs[j].chunk

\* C4 (construction): Arena::new panics when N = 0 or the element type is
\* zero-sized, so no constructed Arena has N = 0.
C4_NewRejects ==
    (status # "unborn" /\ (N = 0 \/ elemSize = 0)) => status = "panicked"

\* C5 (emptiness): for both arena types is_empty() is true in every state
\* before the first alloc and false in every state after it.
C5_Emptiness ==
    /\ status = "alive" => (is_empty(inner) <=> K = 0)
    /\ d_status = "alive" => (Dbl_is_empty(list) <=> Len(d_refs) = 0)

C5_Witness ==
    /\ status = "alive" /\ d_status = "alive"
    /\ K >= 2 /\ Len(d_refs) >= 2
    /\ Len(chunks) >= 2 /\ Len(list) >= 2
    /\ ~is_empty(inner) /\ ~Dbl_is_empty(list)

\* The free-slot counts test::fill_chunk observes for N = 3.
FillChunkObserved == <<2, 1, 0, 2, 1, 0, 2>>

\* C6 (free-slot arithmetic): for N >= 1, in the states after the k-th alloc
\* free_slots_in_current_chunk() is Some(N - 1 - ((k - 1) mod N)); for N = 3
\* the first seven allocs observe 2, 1, 0, 2, 1, 0, 2.
C6_FreeSlotArithmetic ==
    (status = "alive" /\ N >= 1 /\ K >= 1) =>
        /\ free_slots_in_current_chunk(inner) = Some(N - 1 - ((K - 1) % N))
        /\ (N = 3 /\ K <= Len(FillChunkObserved)) =>
               free_slots_in_current_chunk(inner) = Some(FillChunkObserved[K])

C6_Witness ==
    status = "alive" /\ N = 3 /\ K = 7 /\ free_slots_in_current_chunk(inner) = Some(2)

\* C7 (same external contract): for N >= 1, after the same calls the Arena
\* and the DoublyLinkedArena agree on is_empty(), on
\* free_slots_in_current_chunk() and on the value read through every
\* returned reference.
C7_SameContract ==
    (N >= 1 /\ status = "alive" /\ d_status # "unborn") =>
        /\ d_status = "alive"
        /\ is_empty(inner) = Dbl_is_empty(list)
        /\ free_slots_in_current_chunk(inner) = Dbl_free_slots_in_current_chunk(d_ptr, d_end)
        /\ Len(d_refs) = K
        /\ \A i \in DOMAIN refs : Deref(chunks, refs[i]) = Dbl_Deref(list, d_refs[i])

C7_Witness ==
    /\ status = "alive" /\ d_status = "alive"
    /\ N = 2 /\ K = 5
    /\ \E i \in DOMAIN refs : shadow[i] = "v1"
    /\ \E i \in DOMAIN refs : shadow[i] = "v2"

\* C8 (frame of a write): a write through a returned reference changes that
\* element only: the cursor, the end, the chunk chain, the result of
\* free_slots_in_current_chunk() and every other stored element stay as
\* they were.
C8_WriteFrame ==
    [][(status = "alive" /\ status' = "alive" /\ refs' = refs) =>
          /\ inner' = inner
          /\ free_slots_in_current_chunk(inner') = free_slots_in_current_chunk(inner)
          /\ \A c \in DOMAIN chunks : chunks'[c].next = chunks[c].next
          /\ \A i \in DOMAIN refs :
                 shadow'[i] = shadow[i] => Deref(chunks', refs[i]) = Deref(chunks, refs[i])
      ]_vars

\* The number of slots of block b that hold no element.
UnusedSlots(b) == Cardinality({i \in DOMAIN b : b[i] = Uninit})

\* C9 (free_slots result): for both arena types the query returns None
\* exactly when no chunk exists; once one exists it returns Some(end -
\* cursor), which is the number of unused slots of the current chunk.
C9_FreeSlotsResult ==
    /\ status = "alive" =>
          /\ free_slots_in_current_chunk(inner) = None <=> Len(chunks) = 0
          /\ Len(chunks) > 0 =>
                 LET arena == Unwrap(inner)
                 IN  /\ free_slots_in_current_chunk(inner) = Some(arena.end.idx - arena.ptr.idx)
                     /\ free_slots_in_current_chunk(inner)
                            = Some(UnusedSlots(chunks[arena.head_chunk].slots))
    /\ d_status = "alive" =>
          /\ Dbl_free_slots_in_current_chunk(d_ptr, d_end) = None <=> Len(list) = 0
          /\ Len(list) > 0 =>
                 /\ Dbl_free_slots_in_current_chunk(d_ptr, d_end)
                        = Some(Unwrap(d_end).idx - Unwrap(d_ptr).idx)
                 /\ Dbl_free_slots_in_current_chunk(d_ptr, d_end)
                        = Some(UnusedSlots(list[Len(list)]))

\* C10 (cursor bounds, I2): whenever the Arena has a chunk, cursor and end
\* point into the head chunk, chunk_start <= cursor <= end and
\* end = chunk_start + N.
C10_CursorBounds ==
    (status = "alive" /\ inner # None) =>
        LET arena == Unwrap(inner)
        IN  /\ arena.ptr.chunk = arena.head_chunk
            /\ arena.end.chunk = arena.head_chunk
            /\ 0 <= arena.ptr.idx
            /\ arena.ptr.idx <= arena.end.idx
            /\ arena.end.idx = N

\* C11 (initialization shape, I3 and I4): a slot of a chunk of the Arena
\* holds an element exactly when its chunk is not the head, or it lies in
\* the head below the cursor; every other slot is uninitialized.  So a chunk
\* that is no longer the head has all its N slots initialized.
C11_InitializationShape ==
    status = "alive" =>
        /\ inner = None => chunks = <<>>
        /\ inner # None =>
              LET arena == Unwrap(inner)
              IN  \A c \in DOMAIN chunks : \A i \in 0..(N - 1) :
                      LET cell == chunks[c].slots[i + 1]
                      IN  /\ cell \in Values <=> (c # arena.head_chunk \/ i < arena.ptr.idx)
                          /\ cell \notin Values => cell = Uninit

C11_Witness ==
    /\ status = "alive" /\ N = 3 /\ Len(chunks) = 3
    /\ Unwrap(inner).ptr.idx = 1
    /\ chunks[3].slots[2] = Uninit /\ chunks[1].slots[3] \in Values

C13_FallbackOnce ==
    [][d_status = "alive" =>
          /\ d_status' = "alive"
          /\ d_refs' # d_refs =>
                LET full == d_ptr = None \/ Unwrap(d_ptr).idx >= N
                    last == Len(list')
                IN  IF full
                    THEN /\ last = Len(list) + 1
                         /\ d_depth' = 1
                         /\ d_refs'[Len(d_refs')] = Ptr(last, 0)
                         /\ list'[last][1] = d_shadow'[Len(d_shadow')]
                         /\ d_ptr' = Some(Ptr(last, 1))
                    ELSE /\ last = Len(list)
                         /\ d_depth' = 0]_vars

\* The last alloc went through the fallback while older chunks existed.
C13_Witness ==
    /\ d_status = "alive"
    /\ d_depth = 1
    /\ Len(list) = 3
    /\ d_refs[Len(d_refs)] = Ptr(3, 0)
    /\ d_ptr = Some(Ptr(3, 1))

\* C14: Arena::destroy releases all chunk memory.  After destroy, for any
\* number of earlier allocs, destroy has run to its end, every chunk the
\* arena created is freed exactly once, and a chunk is freed only after the
\* destructor of every element stored in it has run (no destructor runs
\* on a chunk that is already freed).
C14_DestroyFreesAll ==
    status \in {"destroyed", "crashed"} =>
        /\ status = "destroyed"
        /\ \A c \in DOMAIN chunks :
              /\ Cardinality({k \in DOMAIN teardown : teardown[k] = FreeEvent(c)}) = 1
              /\ \A k \in DOMAIN teardown :
                    teardown[k] = FreeEvent(c) =>
                        /\ \A j \in DOMAIN teardown :
                              (teardown[j].kind = "drop" /\ teardown[j].chunk = c) => j < k
                        /\ \A i \in DOMAIN refs :
                              refs[i].chunk = c =>
                                  \E j \in 1..(k - 1) :
                                      /\ teardown[j].kind = "drop"
                                      /\ teardown[j].chunk = c
                                      /\ teardown[j].idx = refs[i].idx

\* C15: chunk rollover in Arena::alloc.  An alloc that finds no chunk or a
\* full head chunk creates exactly one chunk, makes it the head with the
\* previous head (if any) as its successor, sets the cursor one past the
\* new chunk's first slot and end one past its last slot, and stores the
\* value in the new chunk's first slot; an alloc that finds a free slot
\* creates no chunk.  In both cases the links of the older chunks do not
\* change, and afterwards the chain from the head lists the chunks in
\* reverse creation order.
C15_ChunkRollover ==
    [][(status = "alive" /\ status' = "alive" /\ refs' # refs) =>
          LET full == inner = None \/ ~PtrLt(Unwrap(inner).ptr, Unwrap(inner).end)
              new == Len(chunks')
              arena == Unwrap(inner')
          IN  /\ IF full
                 THEN /\ new = Len(chunks) + 1
                      /\ arena.head_chunk = new
                      /\ arena.ptr = Ptr(new, 1)
                      /\ arena.end = Ptr(new, N)
                      /\ refs'[Len(refs')] = Ptr(new, 0)
                      /\ Deref(chunks', Ptr(new, 0)) = shadow'[Len(shadow')]
                 ELSE /\ new = Len(chunks)
                      /\ arena.head_chunk = Unwrap(inner).head_chunk
              /\ \A c \in DOMAIN chunks : chunks'[c].next = chunks[c].next
              /\ \A c \in DOMAIN chunks' :
                    chunks'[c].next = IF c = 1 THEN NoLink ELSE ChunkLink(c - 1)]_vars

\* C16: DoublyLinkedArena keeps its chunks in allocation order.  Every
\* step leaves the existing list entries in their places (each earlier
\* reference still denotes the same entry and slot and reads its element,
\* and an unused slot of an existing entry is filled only by being
\* returned), a new chunk appears only as one fresh entry at the back,
\* holding just the new element, and in every non-empty state the cursor
\* and end refer to the last chunk of the list.
C16_AppendOrder ==
    [][d_status' = "alive" =>
          LET last == Len(list')
          IN  /\ Len(list) <= last
              /\ last <= Len(list) + 1
              /\ \A k \in DOMAIN d_refs :
                    /\ d_refs'[k] = d_refs[k]
                    /\ Dbl_Deref(list', d_refs[k]) = d_shadow'[k]
              /\ \A c \in DOMAIN list : \A i \in 0..(N - 1) :
                    (Dbl_Deref(list, Ptr(c, i)) = Uninit /\ Dbl_Deref(list', Ptr(c, i)) # Uninit)
                        => (d_refs' # d_refs /\ d_refs'[Len(d_refs')] = Ptr(c, i))
              /\ last = Len(list) + 1 =>
                    /\ d_refs'[Len(d_refs')] = Ptr(last, 0)
                    /\ \A i \in 1..(N - 1) : Dbl_Deref(list', Ptr(last, i)) = Uninit
              /\ last >= 1 =>
                    /\ d_ptr' # None
                    /\ Unwrap(d_ptr').chunk = last
                    /\ d_end' = Some(Ptr(last, N))]_vars

\* Three chunks exist, the oldest two are full, the cursor is in the third.
C16_Witness ==
    /\ d_status = "alive"
    /\ N = 2
    /\ Len(list) = 3
    /\ Len(d_refs) = 5
    /\ d_refs[5] = Ptr(3, 0)
    /\ d_ptr = Some(Ptr(3, 1))
    /\ d_end = Some(Ptr(3, 2))

\* C17 (conservation): with capacity N >= 1, after K allocs the chain holds
\* exactly ceil(K / N) chunks and (chunks - 1) * N + (cursor - chunk_start)
\* = K; the number of chunks grows only in an alloc that finds no chunk or
\* a full head chunk, and then by one.
C17_Conservation ==
    [][(N >= 1 /\ status' = "alive") =>
          LET k == Len(refs')
              n == Len(chunks')
          IN  /\ n * N >= k
              /\ n > 0 => (n - 1) * N < k
              /\ (inner' = None) <=> (n = 0)
              /\ inner' # None =>
                    /\ Unwrap(inner').ptr.chunk = Unwrap(inner').head_chunk
                    /\ (n - 1) * N + Unwrap(inner').ptr.idx = k
              /\ n # Len(chunks) =>
                    /\ n = Len(chunks) + 1
                    /\ k = Len(refs) + 1
                    /\ inner = None \/ Unwrap(inner).ptr.idx = N]_vars

\* Seven elements in chunks of three: three chunks, one element in the head.
C17_Witness ==
    /\ status = "alive"
    /\ N = 3
    /\ K = 7
    /\ Len(chunks) = 3
    /\ Unwrap(inner).ptr = Ptr(3, 1)

\* C18 (field coupling in DoublyLinkedArena): in every state of a live
\* arena ptr and end are both None or both Some, and they are None exactly
\* when the list of chunks is empty; so free_slots_in_current_chunk does
\* not panic on its unwrap of ptr, and no call on a live arena (alloc with
\* its unwrap of end included) ends in a panic.
C18_FieldCoupling ==
    [][/\ d_status = "alive" => d_status' = "alive"
       /\ d_status' = "alive" =>
             /\ (d_ptr' = None) <=> (d_end' = None)
             /\ (d_ptr' = None) <=> (Len(list') = 0)
             /\ Dbl_free_slots_in_current_chunk(d_ptr', d_end') # Panic]_vars

\* A later chunk is current and full: both fields are Some and the query
\* returns Some(0).
C18_Witness ==
    /\ d_status = "alive"
    /\ Len(list) >= 2
    /\ d_ptr # None
    /\ d_end # None
    /\ Dbl_free_slots_in_current_chunk(d_ptr, d_end) = Some(0)

\* C19 (teardown without destroy): when an Arena holding K elements goes
\* out of scope without destroy, the drop runs to its end, every chunk is
\* released exactly once and no element destructor runs; destructors have
\* run only in states reached through destroy, and each destructor call
\* of destroy was on a slot of a chunk that holds an element.
C19_ImplicitDrop ==
    /\ status \in {"dropped", "drop_crashed"} =>
          /\ status = "dropped"
          /\ dropped = <<>>
          /\ \A k \in DOMAIN teardown : teardown[k].kind = "free"
          /\ \A c \in DOMAIN chunks :
                Cardinality({k \in DOMAIN teardown : teardown[k] = FreeEvent(c)}) = 1
    /\ dropped # <<>> => status \in {"destroyed", "crashed"}
    /\ \A k \in DOMAIN dropped :
          /\ InBounds(dropped[k].at)
          /\ dropped[k].cell \in Values

\* C20: in the old.rs Arena, free_slots_in_current_chunk returns
\* N - current_index: N before the first push, and N - 1 - ((k - 1) mod N)
\* after the k-th push for N >= 1; current_index is within 0..=N in every
\* reachable state, so the subtraction does not underflow and no call of
\* free_slots_in_current_chunk panics or wraps.
C20_OldFreeSlots ==
    o_status = "alive" =>
        LET k == Len(o_refs)
        IN  /\ o_index \in 0..N
            /\ o_result # Panic
            /\ o_result # None => Unwrap(o_result) <= N
            /\ k = 0 /\ ~o_unwound => Old_free_slots_in_current_chunk(o_index) = {Some(N)}
            /\ (k >= 1 /\ N >= 1) =>
                  Old_free_slots_in_current_chunk(o_index) = {Some(N - 1 - ((k - 1) % N))}

============================================================================
